---- MODULE Spec2Model ----
(***************************************************************************)
(* Model of lc_registry/registry.py: RegistryMetaclassMixin.               *)
(*                                                                         *)
(* The class attribute _REGISTRY is either None or a reference to a dict   *)
(* object.  Dict objects live in a heap, so that a copy (a new object with *)
(* the same content) and an alias (the same object) are different things.  *)
(* The caller of registry() keeps the returned value in snap and may       *)
(* mutate it.                                                              *)
(***************************************************************************)
EXTENDS Integers, FiniteSets, Sequences, TLC

VARIABLES _REGISTRY, heap, snap, ret, succeeded, pc, args, outcome

vars == <<_REGISTRY, heap, snap, ret, succeeded, pc, args, outcome>>

-----------------------------------------------------------------------------
(* Bounds of the model. *)

NumNames == 2

NumDescs == 2

NumThreads == 2

-----------------------------------------------------------------------------
(* Values. *)

None == [tag |-> "None"]

Ref(i) == [tag |-> "dict", id |-> i]

Type(i) == [tag |-> "type", id |-> i]

NamePool == <<"BaseWithRegistry", "BaseNoRegistry", "Plugin", "Codec", "Driver">>

Names == {NamePool[i] : i \in 1..NumNames}

Descs == {Type(i) : i \in 1..NumDescs}

Threads == 1..NumThreads

NoExc == "none"

TypeError == "TypeError"

(* The name of a call that takes no name *)
NoName == ""

(* The outcome of a call that has not ended *)
Pending == "pending"

(* The dict with no entry: dict() *)
EmptyDict == [n \in {} |-> None]

-----------------------------------------------------------------------------
(* dict primitives *)

(* Variant of dict_contains: the membership test of line 64 never finds the name. *)
dict_contains_never(d, name) == FALSE

(* name in d *)
dict_contains(d, name) == name \in DOMAIN d

(* d.get(name) *)
dict_get(d, name) == IF name \in DOMAIN d THEN d[name] ELSE None

(* Variant of dict_setitem: the assignment of line 66 is lost. *)
dict_setitem_drop(d, name, v) == d

(* d[name] = v *)
dict_setitem(d, name, v) ==
    [n \in (DOMAIN d) \cup {name} |-> IF n = name THEN v ELSE d[n]]

(* del d[name] *)
dict_delitem(d, name) == [n \in (DOMAIN d) \ {name} |-> d[n]]

(* The (name, value) pairs of a dict: d.items() *)
dict_items(d) == {<<n, d[n]>> : n \in DOMAIN d}

-----------------------------------------------------------------------------
(* Heap of dict objects *)

(* The identity of a newly created object: one no live object has. *)
NewId(h) ==
    CHOOSE i \in 1..(Cardinality(DOMAIN h) + 1) :
        /\ i \notin DOMAIN h
        /\ \A j \in 1..(i - 1) : j \in DOMAIN h

Alloc(h, o, d) == [i \in (DOMAIN h) \cup {o} |-> IF i = o THEN d ELSE h[i]]

(* Objects no root refers to are freed. *)
Collect(h, roots) ==
    [i \in {j \in DOMAIN h : Ref(j) \in roots} |-> h[i]]

(* What a method call leaves and gives: the class attribute, the heap, the
   exception raised (NoExc if none) and the value returned. *)
Outcome(reg, h, exc, value) ==
    [REGISTRY |-> reg, heap |-> h, exc |-> exc, value |-> value]

(* The content of the registry's dict; None when there is no dict. *)
Contents == IF _REGISTRY = None THEN None ELSE heap[_REGISTRY.id]

-----------------------------------------------------------------------------
(* The methods of RegistryMetaclassMixin, each as the outcome of one call in
   the current state. *)

(* Variant of registry: line 44 returns cls._REGISTRY itself, not dict(cls._REGISTRY). *)
registry_alias ==
    IF _REGISTRY = None
    THEN Outcome(_REGISTRY, heap, NoExc, None)
    ELSE Outcome(_REGISTRY, heap, NoExc, _REGISTRY)

(* Variant of registry: without lines 42-43, an empty dict stands for a missing one. *)
registry_emptydict ==
    LET o == NewId(heap)
    IN  IF _REGISTRY = None
        THEN Outcome(_REGISTRY, Alloc(heap, o, EmptyDict), NoExc, Ref(o))
        ELSE Outcome(_REGISTRY, Alloc(heap, o, heap[_REGISTRY.id]), NoExc, Ref(o))

(* registry(): None, or a new dict with the registry's content. *)
registry ==
    IF _REGISTRY = None
    THEN Outcome(_REGISTRY, heap, NoExc, None)
    ELSE LET o == NewId(heap)
         IN  Outcome(_REGISTRY, Alloc(heap, o, heap[_REGISTRY.id]), NoExc, Ref(o))

(* Variant of retrieve: line 51 with setdefault(name) in place of get(name). *)
retrieve_setdefault(name) ==
    IF _REGISTRY = None
    THEN Outcome(_REGISTRY, heap, NoExc, None)
    ELSE IF dict_contains(heap[_REGISTRY.id], name)
         THEN Outcome(_REGISTRY, heap, NoExc, heap[_REGISTRY.id][name])
         ELSE Outcome(_REGISTRY,
                      [heap EXCEPT ![_REGISTRY.id] = dict_setitem(@, name, None)],
                      NoExc, None)

(* retrieve(name) *)
retrieve(name) ==
    IF _REGISTRY = None
    THEN Outcome(_REGISTRY, heap, NoExc, None)
    ELSE Outcome(_REGISTRY, heap, NoExc, dict_get(heap[_REGISTRY.id], name))

(* Variant of _add_class: without line 66. *)
add_class_noinsert(name, new_cls) ==
    IF _REGISTRY = None
    THEN Outcome(_REGISTRY, heap, NoExc, None)
    ELSE IF dict_contains(heap[_REGISTRY.id], name)
         THEN Outcome(_REGISTRY, heap, TypeError, None)
         ELSE Outcome(_REGISTRY, heap, NoExc, None)

(* Variant of _add_class: without lines 64-65. *)
add_class_overwrite(name, new_cls) ==
    IF _REGISTRY = None
    THEN Outcome(_REGISTRY, heap, NoExc, None)
    ELSE Outcome(_REGISTRY,
                 [heap EXCEPT ![_REGISTRY.id] = dict_setitem(@, name, new_cls)],
                 NoExc, None)

(* Variant of _add_class: line 63 raises instead of returning. *)
add_class_raise_uninit(name, new_cls) ==
    IF _REGISTRY = None
    THEN Outcome(_REGISTRY, heap, TypeError, None)
    ELSE IF dict_contains(heap[_REGISTRY.id], name)
         THEN Outcome(_REGISTRY, heap, TypeError, None)
         ELSE Outcome(_REGISTRY,
                      [heap EXCEPT ![_REGISTRY.id] = dict_setitem(@, name, new_cls)],
                      NoExc, None)

(* Variant of _add_class: lines 62-63 create the dict instead of returning. *)
add_class_lazy_init(name, new_cls) ==
    IF _REGISTRY = None
    THEN LET o == NewId(heap)
         IN  Outcome(Ref(o), Alloc(heap, o, dict_setitem(EmptyDict, name, new_cls)),
                     NoExc, None)
    ELSE IF dict_contains(heap[_REGISTRY.id], name)
         THEN Outcome(_REGISTRY, heap, TypeError, None)
         ELSE Outcome(_REGISTRY,
                      [heap EXCEPT ![_REGISTRY.id] = dict_setitem(@, name, new_cls)],
                      NoExc, None)

(* Variant of _add_class: line 66 replaces the dict by one that holds the new entry only. *)
add_class_clobber(name, new_cls) ==
    IF _REGISTRY = None
    THEN Outcome(_REGISTRY, heap, NoExc, None)
    ELSE IF dict_contains(heap[_REGISTRY.id], name)
         THEN Outcome(_REGISTRY, heap, TypeError, None)
         ELSE Outcome(_REGISTRY,
                      [heap EXCEPT ![_REGISTRY.id] = dict_setitem(EmptyDict, name, new_cls)],
                      NoExc, None)

(* _add_class(name, new_cls) *)
_add_class(name, new_cls) ==
    IF _REGISTRY = None
    THEN Outcome(_REGISTRY, heap, NoExc, None)
    ELSE IF dict_contains(heap[_REGISTRY.id], name)
         THEN Outcome(_REGISTRY, heap, TypeError, None)
         ELSE Outcome(_REGISTRY,
                      [heap EXCEPT ![_REGISTRY.id] = dict_setitem(@, name, new_cls)],
                      NoExc, None)

(* __new__(name, bases, attrs): new_cls is the type that type.__new__ made;
   it is returned unless _add_class raised. *)
__new__(name, new_cls) ==
    LET r == _add_class(name, new_cls)
    IN  IF r.exc # NoExc THEN r ELSE [r EXCEPT !.value = new_cls]

(* The types some live dict holds: type.__new__ makes a type that is none
   of them. *)
LiveTypes == {heap[i][n] : <<i, n>> \in {<<j, m>> \in (DOMAIN heap) \X Names : m \in DOMAIN heap[j]}}

-----------------------------------------------------------------------------
(* Calls made one after the other by one caller *)

Call(op, name, new_cls, r) ==
    [op |-> op, name |-> name, new_cls |-> new_cls, exc |-> r.exc, value |-> r.value]

Registered(name, new_cls, r) ==
    IF r.exc = NoExc THEN succeeded \cup {<<name, new_cls>>} ELSE succeeded

Init ==
    /\ _REGISTRY \in {None, Ref(1)}
    /\ heap = IF _REGISTRY = None THEN [i \in {} |-> EmptyDict] ELSE [i \in {1} |-> EmptyDict]
    /\ snap = None
    /\ ret = [op |-> "init", name |-> NoName, new_cls |-> None, exc |-> NoExc, value |-> None]
    /\ succeeded = {}
    /\ pc = [t \in Threads |-> "idle"]
    /\ args = [t \in Threads |-> None]
    /\ outcome = [t \in Threads |-> Pending]

CallRegistry ==
    LET r == registry
    IN  /\ _REGISTRY' = r.REGISTRY
        /\ snap' = r.value
        /\ heap' = Collect(r.heap, {r.REGISTRY, r.value})
        /\ ret' = Call("registry", NoName, None, r)
        /\ UNCHANGED <<succeeded, pc, args, outcome>>

CallRetrieve ==
    \E name \in Names :
        LET r == retrieve(name)
        IN  /\ _REGISTRY' = r.REGISTRY
            /\ heap' = Collect(r.heap, {r.REGISTRY, snap})
            /\ ret' = Call("retrieve", name, None, r)
            /\ UNCHANGED <<snap, succeeded, pc, args, outcome>>

CallAddClass ==
    \E name \in Names, new_cls \in Descs :
        LET r == _add_class(name, new_cls)
        IN  /\ _REGISTRY' = r.REGISTRY
            /\ heap' = Collect(r.heap, {r.REGISTRY, snap})
            /\ ret' = Call("_add_class", name, new_cls, r)
            /\ succeeded' = Registered(name, new_cls, r)
            /\ UNCHANGED <<snap, pc, args, outcome>>

CallNew ==
    \E name \in Names, new_cls \in Descs \ LiveTypes :
        LET r == __new__(name, new_cls)
        IN  /\ _REGISTRY' = r.REGISTRY
            /\ heap' = Collect(r.heap, {r.REGISTRY, snap})
            /\ ret' = Call("__new__", name, new_cls, r)
            /\ succeeded' = Registered(name, new_cls, r)
            /\ UNCHANGED <<snap, pc, args, outcome>>

(* The caller changes the dict that registry() returned: snap[name] = v *)
SnapSetItem ==
    /\ snap # None
    /\ \E name \in Names, v \in Descs :
        /\ heap' = [heap EXCEPT ![snap.id] = dict_setitem(@, name, v)]
        /\ ret' = [op |-> "snap_setitem", name |-> name, new_cls |-> v,
                   exc |-> NoExc, value |-> None]
    /\ UNCHANGED <<_REGISTRY, snap, succeeded, pc, args, outcome>>

(* del snap[name] *)
SnapDelItem ==
    /\ snap # None
    /\ \E name \in DOMAIN heap[snap.id] :
        /\ heap' = [heap EXCEPT ![snap.id] = dict_delitem(@, name)]
        /\ ret' = [op |-> "snap_delitem", name |-> name, new_cls |-> None,
                   exc |-> NoExc, value |-> None]
    /\ UNCHANGED <<_REGISTRY, snap, succeeded, pc, args, outcome>>

Next ==
    \/ CallRegistry
    \/ CallRetrieve
    \/ CallAddClass
    \/ CallNew
    \/ SnapSetItem
    \/ SnapDelItem

Spec == Init /\ [][Next]_vars

-----------------------------------------------------------------------------
(* Calls of _add_class made by several threads with nothing that excludes
   one from another: each of lines 62, 64 and 66 is a step of its own. *)

ThreadCall(t) ==
    /\ pc[t] = "idle"
    /\ \E name \in Names, new_cls \in Descs :
        args' = [args EXCEPT ![t] = [name |-> name, new_cls |-> new_cls]]
    /\ pc' = [pc EXCEPT ![t] = "l62"]
    /\ UNCHANGED <<_REGISTRY, heap, snap, ret, succeeded, outcome>>

(* if cls._REGISTRY is None: return None *)
ThreadL62(t) ==
    /\ pc[t] = "l62"
    /\ IF _REGISTRY = None
       THEN /\ pc' = [pc EXCEPT ![t] = "done"]
            /\ outcome' = [outcome EXCEPT ![t] = NoExc]
            /\ succeeded' = succeeded \cup {<<args[t].name, args[t].new_cls>>}
       ELSE /\ pc' = [pc EXCEPT ![t] = "l64"]
            /\ UNCHANGED <<outcome, succeeded>>
    /\ UNCHANGED <<_REGISTRY, heap, snap, ret, args>>

(* if name in cls._REGISTRY: raise TypeError(...) *)
ThreadL64(t) ==
    /\ pc[t] = "l64"
    /\ IF dict_contains(heap[_REGISTRY.id], args[t].name)
       THEN /\ pc' = [pc EXCEPT ![t] = "done"]
            /\ outcome' = [outcome EXCEPT ![t] = TypeError]
       ELSE /\ pc' = [pc EXCEPT ![t] = "l66"]
            /\ UNCHANGED outcome
    /\ UNCHANGED <<_REGISTRY, heap, snap, ret, succeeded, args>>

(* cls._REGISTRY[name] = new_cls; return None *)
ThreadL66(t) ==
    /\ pc[t] = "l66"
    /\ heap' = [heap EXCEPT ![_REGISTRY.id] = dict_setitem(@, args[t].name, args[t].new_cls)]
    /\ pc' = [pc EXCEPT ![t] = "done"]
    /\ outcome' = [outcome EXCEPT ![t] = NoExc]
    /\ succeeded' = succeeded \cup {<<args[t].name, args[t].new_cls>>}
    /\ UNCHANGED <<_REGISTRY, snap, ret, args>>

NextConc ==
    \E t \in Threads :
        \/ ThreadCall(t)
        \/ ThreadL62(t)
        \/ ThreadL64(t)
        \/ ThreadL66(t)

SpecConc == Init /\ [][NextConc]_vars

-----------------------------------------------------------------------------
(* Properties.  register(n, d) is _add_class(n, d), called directly or by
   __new__; lookup is retrieve; snapshot is registry.  ret describes the
   call that led to the current state. *)

RegisterOps == {"_add_class", "__new__"}

QueryOps == {"retrieve", "registry"}

SnapOps == {"snap_setitem", "snap_delitem"}

Active == _REGISTRY # None

Pairs(d) == {<<n, d[n]>> : n \in DOMAIN d}

(* The content of the dict that a call of registry() would return now *)
SnapshotNow == LET r == registry IN r.heap[r.value.id]

(* C1: on an active registry, right after a register(n, d) that succeeded,
   lookup(n) returns d and snapshot() contains the pair (n, d). *)
C1_RegistrationVisibility ==
    (Active /\ ret.op \in RegisterOps /\ ret.exc = NoExc) =>
        /\ retrieve(ret.name).exc = NoExc
        /\ retrieve(ret.name).value = ret.new_cls
        /\ registry.exc = NoExc
        /\ <<ret.name, ret.new_cls>> \in Pairs(SnapshotNow)

C1_Witness ==
    /\ Active
    /\ ret.op \in RegisterOps
    /\ ret.exc = NoExc
    /\ Cardinality(DOMAIN Contents) >= 2

(* C2: on an active registry that maps n to d1, every register(n, d2) raises
   TypeError and leaves the whole mapping as it was: lookup(n) still
   returns d1. *)
C2_DuplicateRejection ==
    [][(Active /\ ret'.op \in RegisterOps /\ ret'.name \in DOMAIN Contents) =>
          /\ ret'.exc = TypeError
          /\ _REGISTRY' = _REGISTRY
          /\ Contents' = Contents
          /\ \A n \in Names :
                n = ret'.name => retrieve(n)'.value = Contents[n]]_vars

C2_Witness ==
    /\ Active
    /\ ret.op = "_add_class"
    /\ ret.exc = TypeError
    /\ \E n \in DOMAIN Contents : n # ret.name /\ Contents[n] = ret.new_cls
    /\ Contents[ret.name] # ret.new_cls

(* C3: on a registry without a dict, lookup(n) returns None for every n and
   snapshot() returns None (not an empty dict), in every reachable state. *)
C3_AbsenceOnUninitialized ==
    (~Active) =>
        /\ \A n \in Names : retrieve(n).exc = NoExc /\ retrieve(n).value = None
        /\ registry.exc = NoExc
        /\ registry.value = None
        /\ ret.op \in QueryOps => (ret.exc = NoExc /\ ret.value = None)

C3_Witness ==
    /\ ~Active
    /\ ret.op \in QueryOps
    /\ succeeded # {}

(* C4: on a registry without a dict, every register(n, d) returns without an
   exception, also when n was used before, stores nothing and leaves the
   registry without a dict: lookup(n) afterwards returns None. *)
C4_NoOpOnUninitialized ==
    [][((~Active) /\ ret'.op \in RegisterOps) =>
          /\ ret'.exc = NoExc
          /\ _REGISTRY' = None
          /\ heap' = heap
          /\ \A n \in Names : n = ret'.name => retrieve(n)'.value = None]_vars

C4_Witness ==
    /\ ~Active
    /\ ret.op \in RegisterOps
    /\ Cardinality({p \in succeeded : p[1] = ret.name}) >= 2

(* C5: the dict that snapshot() returns is a copy: it has the registry's
   content when it is returned, changing it (setting or deleting an entry)
   changes neither the registry's mapping nor any later lookup or snapshot
   result, and a register that succeeds later does not change it. *)
C5_SnapshotIsolation ==
    [][/\ (ret'.op = "registry" /\ Active) =>
              /\ snap' # _REGISTRY
              /\ heap'[snap'.id] = Contents
       /\ (ret'.op \in SnapOps) =>
              /\ _REGISTRY' = _REGISTRY
              /\ Contents' = Contents
              /\ \A n \in Names : retrieve(n)'.value = retrieve(n).value
              /\ SnapshotNow' = SnapshotNow
       /\ (ret'.op \in RegisterOps /\ snap # None) =>
              /\ snap' = snap
              /\ heap'[snap.id] = heap[snap.id]]_vars

C5_Witness ==
    /\ Active
    /\ ret.op \in SnapOps
    /\ Contents # EmptyDict
    /\ \E n \in DOMAIN Contents :
          n \in DOMAIN heap[snap.id] /\ heap[snap.id][n] # Contents[n]
    /\ \E n \in DOMAIN Contents : n \notin DOMAIN heap[snap.id]

(* C6: on an active registry, register(n, d) with n not in the mapping
   succeeds, adds the entry n -> d and changes no other entry; so the
   mapping always holds exactly the (name, descriptor) pairs of the register
   calls that succeeded. *)
C6_ExactContent ==
    /\ [](Active => Pairs(Contents) = succeeded)
    /\ [][(Active /\ ret'.op \in RegisterOps /\ ret'.name \notin DOMAIN Contents) =>
             /\ ret'.exc = NoExc
             /\ _REGISTRY' = _REGISTRY
             /\ DOMAIN Contents' = (DOMAIN Contents) \cup {ret'.name}
             /\ Contents'[ret'.name] = ret'.new_cls
             /\ \A m \in DOMAIN Contents : Contents'[m] = Contents[m]]_vars

C6_Witness ==
    /\ Active
    /\ ret.op \in RegisterOps
    /\ ret.exc = NoExc
    /\ Cardinality(succeeded) = NumNames

(* C7: no operation gives a dict to a registry created without one, and no
   operation takes the dict of a registry created with one. *)
C7_LifecycleFixed ==
    [][_REGISTRY' = _REGISTRY]_vars

C7_Witness ==
    /\ ~Active
    /\ ret.op = "registry"
    /\ Cardinality(succeeded) >= 2

(* C8: on an active registry, an entry n -> d that is in the mapping is in
   it in every later state: no step removes an entry or gives a name another
   descriptor. *)
C8_Permanence ==
    [][Active =>
          /\ _REGISTRY' # None
          /\ \A n \in DOMAIN Contents :
                /\ n \in DOMAIN Contents'
                /\ Contents'[n] = Contents[n]
                /\ retrieve(n)'.value = retrieve(n).value]_vars

C8_Witness ==
    /\ Active
    /\ ret.op \in RegisterOps
    /\ ret.exc = TypeError
    /\ Cardinality(DOMAIN Contents) = NumNames

(* C9: lookup(n) and snapshot() leave the registry as it was (with or without
   a dict, and the mapping); lookup of a name that is not in an active
   registry returns None and adds no entry for it. *)
C9_QueriesReadOnly ==
    [][(ret'.op \in QueryOps) =>
          /\ ret'.exc = NoExc
          /\ _REGISTRY' = _REGISTRY
          /\ Contents' = Contents
          /\ (ret'.op = "retrieve" /\ Active /\ ret'.name \notin DOMAIN Contents) =>
                (ret'.value = None /\ ret'.name \notin DOMAIN Contents')]_vars

C9_Witness ==
    /\ Active
    /\ ret.op = "retrieve"
    /\ ret.value = None
    /\ Contents # EmptyDict

-----------------------------------------------------------------------------
(* Concurrent calls *)

(* The threads that called _add_class with name n *)
Callers(n) == {t \in Threads : args[t] # None /\ args[t].name = n}

(* Name n was registered by two or more calls, with descriptors that all
   differ, and all of them have returned or raised. *)
Raced(n) ==
    /\ Active
    /\ Cardinality(Callers(n)) >= 2
    /\ \A t, u \in Callers(n) : t # u => args[t].new_cls # args[u].new_cls
    /\ \A t \in Callers(n) : pc[t] = "done"

Succeeded(n) == {t \in Callers(n) : outcome[t] = NoExc}

(* C10, as claimed: when register calls with one name n and different
   descriptors interleave at lines 64 and 66, exactly one succeeds, the
   others raise TypeError, and n maps to the descriptor of the one that
   succeeded (so none replaced it). *)
C10_ExactlyOneSucceeds ==
    \A n \in Names :
        Raced(n) =>
            /\ Cardinality(Succeeded(n)) = 1
            /\ \A t \in Callers(n) \ Succeeded(n) : outcome[t] = TypeError
            /\ n \in DOMAIN Contents
            /\ \A t \in Succeeded(n) : Contents[n] = args[t].new_cls

(* C10, amended: at least one of the calls succeeds, every call that does
   not succeed raises TypeError, and n maps to the descriptor of a call that
   succeeded. *)
C10_AtLeastOneSucceeds ==
    \A n \in Names :
        Raced(n) =>
            /\ Cardinality(Succeeded(n)) >= 1
            /\ \A t \in Callers(n) \ Succeeded(n) : outcome[t] = TypeError
            /\ n \in DOMAIN Contents
            /\ \E t \in Succeeded(n) : Contents[n] = args[t].new_cls

C10_Witness ==
    \E n \in Names :
        /\ Raced(n)
        /\ Cardinality(Succeeded(n)) >= 2
        /\ \E t \in Succeeded(n) : Contents[n] # args[t].new_cls

====
